---- MODULE Spec2Model ----
(***************************************************************************)
(* gambitcore/DatabaseQueries.py: a gateway holding one sqlite3 cursor and  *)
(* three read-only lookups over the relations genomes, genome_annotations   *)
(* and taxa.  Strings that the code concatenates and splits (refseq_acc)    *)
(* are sequences of characters; taxon names, which the code only passes     *)
(* through, are atomic strings.                                             *)
(***************************************************************************)
EXTENDS Integers, Sequences, FiniteSets, TLC

\* Total number of rows in the three relations of the database file.
MaxRows == 5

\* The delimiter GROUP_CONCAT inserts and str.split(",") cuts at.
Comma == ","

\* refseq_acc values: two plain accessions and one containing the delimiter.
Accessions == {<<"a">>, <<"b">>, <<"a", ",", "b">>}

\* taxa.name values; "Unknown" is also the sentinel of the broad lookup.
Names == {"Escherichia coli", "Unknown"}

\* taxa.rank values.
Ranks == {"species", "genus"}

\* The table the engine scans in the outer loop of the three-way join.  The
\* statements carry no ORDER BY, so the row order is the planner's choice; it
\* is fixed for a given database file.
Plans == {"genome_annotations", "genomes", "taxa"}

VARIABLES
    genomes,             \* relation genomes, in rowid order: [id, refseq_acc]
    genome_annotations,  \* relation genome_annotations: [genome_id, taxon_id]
    taxa,                \* relation taxa, in rowid order: [id, name, rank]
    plan,                \* the engine's join order for this database
    status,              \* "new" (before __init__), "ready", "exited"
    cursor,              \* self.cursor: 0 = None, n = the n-th cursor created
    pending,             \* rows of the executed statement not fetched yet
    log,                 \* lines emitted through logging.error
    exit_code,           \* status passed to exit(), 0 while running
    last                 \* the last call and what the caller got from it

vars == <<genomes, genome_annotations, taxa, plan, status, cursor, pending,
          log, exit_code, last>>

tables == <<genomes, genome_annotations, taxa>>

----------------------------------------------------------------------------
(* Values handed to the caller *)

NoDict == <<>>

\* left: the number of unfetched rows on the cursor when the call began.
Call(op, acc, name, outcome, kind, str, dict) ==
    [op |-> op, acc |-> acc, name |-> name, outcome |-> outcome,
     kind |-> kind, str |-> str, dict |-> dict, left |-> 0]

NoCall == Call("none", <<>>, "", "none", "none", "", NoDict)

----------------------------------------------------------------------------
(* str.split(",") and GROUP_CONCAT *)

HasComma(s) == \E i \in 1..Len(s) : s[i] = Comma

FirstComma(s) == CHOOSE i \in 1..Len(s) :
                    /\ s[i] = Comma
                    /\ \A j \in 1..(i - 1) : s[j] # Comma

RECURSIVE split(_)
split(s) ==
    IF ~HasComma(s) THEN <<s>>
    ELSE <<SubSeq(s, 1, FirstComma(s) - 1)>>
             \o split(SubSeq(s, FirstComma(s) + 1, Len(s)))

\* GROUP_CONCAT(DISTINCT x): equal values are aggregated once.
RECURSIVE group_concat_distinct(_)
group_concat_distinct(accs) ==
    IF Len(accs) = 0 THEN <<>>
    ELSE IF Len(accs) = 1 THEN accs[1]
    ELSE IF \E i \in 2..Len(accs) : accs[i] = accs[1]
         THEN group_concat_distinct(Tail(accs))
         ELSE accs[1] \o <<Comma>> \o group_concat_distinct(Tail(accs))

RECURSIVE group_concat(_)
group_concat(accs) ==
    IF Len(accs) = 0 THEN <<>>
    ELSE IF Len(accs) = 1 THEN accs[1]
    ELSE accs[1] \o <<Comma>> \o group_concat(Tail(accs))

----------------------------------------------------------------------------
(* The three-way join  genomes JOIN genome_annotations JOIN taxa *)

\* Annotation rows whose genome_id and taxon_id both match a row.
Joined == {k \in 1..Len(genome_annotations) :
              /\ genome_annotations[k].genome_id \in 1..Len(genomes)
              /\ genome_annotations[k].taxon_id \in 1..Len(taxa)}

\* Position of join row k in the engine's output: the rowid of the table of
\* the outer loop first, the rowid of genome_annotations within it.
ScanKey(k) ==
    LET n == Len(genome_annotations) + 1
    IN  CASE plan = "genome_annotations" -> k
          [] plan = "genomes" -> genome_annotations[k].genome_id * n + k
          [] plan = "taxa" -> genome_annotations[k].taxon_id * n + k

\* The joined row of annotation row k.
JoinRow(k) ==
    [refseq_acc |-> genomes[genome_annotations[k].genome_id].refseq_acc,
     name |-> taxa[genome_annotations[k].taxon_id].name,
     rank |-> taxa[genome_annotations[k].taxon_id].rank]

RECURSIVE Scan(_)
Scan(S) ==
    IF S = {} THEN <<>>
    ELSE LET first == CHOOSE k \in S : \A j \in S : ScanKey(k) <= ScanKey(j)
         IN  <<JoinRow(first)>> \o Scan(S \ {first})

\* The joined rows, in the order the engine produces them.
JoinRows == Scan(Joined)

\* A result row: column 0 and, for the aggregating statements, column 1.
Row(c0, c1) == [c0 |-> c0, c1 |-> c1]

\* Columns g.refseq_acc and t.name of a sequence of joined rows.
AccColumn(rows) == [i \in 1..Len(rows) |-> rows[i].refseq_acc]
NameColumn(rows) == [i \in 1..Len(rows) |-> rows[i].name]

\* Names of a row sequence, each kept at its first occurrence (GROUP BY).
RECURSIVE GroupKeys(_)
GroupKeys(ns) ==
    IF Len(ns) = 0 THEN <<>>
    ELSE LET init == GroupKeys(SubSeq(ns, 1, Len(ns) - 1))
             n == ns[Len(ns)]
         IN  IF \E i \in 1..Len(init) : init[i] = n THEN init
             ELSE Append(init, n)

\* SELECT t.name, GROUP_CONCAT(g.refseq_acc) ... GROUP BY t.name
GroupByName(rows) ==
    LET keys == GroupKeys(NameColumn(rows))
    IN  [i \in 1..Len(keys) |->
            LET IsKey(r) == r.name = keys[i]
            IN  Row(keys[i], group_concat(AccColumn(SelectSeq(rows, IsKey))))]

\* The broad statement with the species-rank filter of the other two.
sql_find_species_species_only(closest_accession) ==
    LET Match(r) == r.rank = "species" /\ r.refseq_acc = closest_accession
        names == NameColumn(SelectSeq(JoinRows, Match))
    IN  [i \in 1..Len(names) |-> Row(names[i], <<>>)]

\* SELECT taxa.name ... WHERE genomes.refseq_acc = ?
sql_find_species(closest_accession) ==
    LET Match(r) == r.refseq_acc = closest_accession
        names == NameColumn(SelectSeq(JoinRows, Match))
    IN  [i \in 1..Len(names) |-> Row(names[i], <<>>)]

\* The species-rank statement without its rank filter.
sql_get_species_any_rank(genome_accession) ==
    LET Match(r) == r.refseq_acc = genome_accession
    IN  GroupByName(SelectSeq(JoinRows, Match))

\* ... AND t.rank = 'species' WHERE g.refseq_acc = ? GROUP BY t.name
sql_get_species(genome_accession) ==
    LET Match(r) == r.rank = "species" /\ r.refseq_acc = genome_accession
    IN  GroupByName(SelectSeq(JoinRows, Match))

\* ... AND t.rank = 'species' WHERE t.name = ? GROUP BY t.name
sql_get_all_genomes(species) ==
    LET Match(r) == r.rank = "species" /\ r.name = species
    IN  GroupByName(SelectSeq(JoinRows, Match))

----------------------------------------------------------------------------
(* The cursor *)

\* An execute that keeps the rows an earlier fetchone left on the cursor.
cursor_execute_append(left, rows) ==
    [pending |-> left \o rows, genomes |-> genomes,
     genome_annotations |-> genome_annotations, taxa |-> taxa]

\* An execute whose statement removes the annotations it read.
cursor_execute_delete(left, rows) ==
    [pending |-> rows, genomes |-> genomes,
     genome_annotations |-> <<>>, taxa |-> taxa]

\* cursor.execute: the statement's rows replace whatever was left unfetched;
\* a SELECT leaves the three relations as they are.
cursor_execute(left, rows) ==
    [pending |-> rows, genomes |-> genomes,
     genome_annotations |-> genome_annotations, taxa |-> taxa]

\* cursor.fetchone: the next row, or None.
cursor_fetchone(rows) ==
    IF Len(rows) = 0 THEN [none |-> TRUE, row |-> Row("", <<>>), pending |-> <<>>]
    ELSE [none |-> FALSE, row |-> Head(rows), pending |-> Tail(rows)]

\* cursor.fetchall: every remaining row.
cursor_fetchall(rows) == [rows |-> rows, pending |-> <<>>]

----------------------------------------------------------------------------
(* The operations, as functions of the rows left on the shared cursor *)

Returned(kind, str, dict, pend, ex) ==
    [kind |-> kind, str |-> str, dict |-> dict, pending |-> pend,
     genomes |-> ex.genomes, genome_annotations |-> ex.genome_annotations,
     taxa |-> ex.taxa]

find_species_from_accession(left, closest_accession) ==
    LET ex == cursor_execute(left, sql_find_species(closest_accession))
        species_name == cursor_fetchone(ex.pending)
    IN  Returned("str",
                 IF species_name.none THEN "Unknown" ELSE species_name.row.c0,
                 NoDict, species_name.pending, ex)

get_species_from_genomes_accession_from_db(left, genome_accession) ==
    LET ex == cursor_execute(left, sql_get_species(genome_accession))
        results == cursor_fetchall(ex.pending)
    IN  IF Len(results.rows) = 0
        THEN Returned("None", "", NoDict, results.pending, ex)
        ELSE Returned("str", results.rows[1].c0, NoDict, results.pending, ex)

\* {row[0]: row[1].split(",") for row in results}: a later row of the same
\* key overwrites an earlier one.
DictOfRows(rows) ==
    LET keys == {rows[i].c0 : i \in 1..Len(rows)}
        LastOf(n) == CHOOSE i \in 1..Len(rows) :
                        /\ rows[i].c0 = n
                        /\ \A j \in 1..Len(rows) : rows[j].c0 = n => j <= i
    IN  [n \in keys |-> split(rows[LastOf(n)].c1)]

get_all_genomes_for_a_species_from_db(left, species) ==
    LET ex == cursor_execute(left, sql_get_all_genomes(species))
        results == cursor_fetchall(ex.pending)
    IN  Returned("dict", "", DictOfRows(results.rows), results.pending, ex)

\* connect_to_db whose handler logs and falls through: it returns None.
connect_to_db_no_exit(ok) ==
    IF ok THEN [cursor |-> 1, exited |-> FALSE, log |-> <<>>]
    ELSE [cursor |-> 0, exited |-> FALSE,
          log |-> <<[op |-> "connect_to_db",
                     msg |-> "Error connecting to the database"]>>]

\* connect_to_db: the cursor of a new connection, or log and exit(1).
connect_to_db(ok) ==
    IF ok THEN [cursor |-> 1, exited |-> FALSE, log |-> <<>>]
    ELSE [cursor |-> 0, exited |-> TRUE,
          log |-> <<[op |-> "connect_to_db",
                     msg |-> "Error connecting to the database"]>>]

\* except sqlite3.Error in operation op: TRUE when the handler logs and calls
\* exit(1), FALSE when the operation has no handler and the error propagates.
catches_sqlite_error(op) ==
    op \in {"get_species_from_genomes_accession_from_db",
            "get_all_genomes_for_a_species_from_db"}

----------------------------------------------------------------------------
(* Initial states: a database file of at most MaxRows rows *)

\* refseq_acc identifies a genome: no two genomes share one.
GenomeTables(n) ==
    {[i \in 1..n |-> [id |-> i, refseq_acc |-> f[i]]] :
        f \in {h \in [1..n -> Accessions] :
                  \A i, j \in 1..n : h[i] = h[j] => i = j}}

\* A taxonomy names a taxon of a rank once.
TaxaTables(n) ==
    {[i \in 1..n |-> [id |-> i, name |-> f[i][1], rank |-> f[i][2]]] :
        f \in {h \in [1..n -> Names \X Ranks] :
                  \A i, j \in 1..n : h[i] = h[j] => i = j}}

AnnotationTables(n, ng, nt) ==
    {[i \in 1..n |-> [genome_id |-> f[i][1], taxon_id |-> f[i][2]]] :
        f \in [1..n -> (1..ng) \X (1..nt)]}

Init ==
    /\ \E ng, nt, na \in 0..MaxRows :
          /\ ng + nt + na <= MaxRows
          /\ genomes \in GenomeTables(ng)
          /\ taxa \in TaxaTables(nt)
          /\ genome_annotations \in AnnotationTables(na, ng, nt)
    /\ plan \in Plans
    /\ status = "new"
    /\ cursor = 0
    /\ pending = <<>>
    /\ log = <<>>
    /\ exit_code = 0
    /\ last = NoCall

----------------------------------------------------------------------------
(* Actions *)

\* DatabaseQueries(database_filename)
Construct ==
    /\ status = "new"
    /\ \E ok \in BOOLEAN :
          LET c == connect_to_db(ok)
          IN  /\ cursor' = c.cursor
              /\ log' = log \o c.log
              /\ status' = IF c.exited THEN "exited" ELSE "ready"
              /\ exit_code' = IF c.exited THEN 1 ELSE 0
              /\ last' = Call("__init__", <<>>, "",
                              IF c.exited THEN "exited" ELSE "returned",
                              "none", "", NoDict)
    /\ UNCHANGED <<tables, plan, pending>>

\* The caller gets the value r of operation op.
Return(op, acc, name, r) ==
    /\ last' = [Call(op, acc, name, "returned", r.kind, r.str, r.dict)
                    EXCEPT !.left = Len(pending)]
    /\ pending' = r.pending
    /\ genomes' = r.genomes
    /\ genome_annotations' = r.genome_annotations
    /\ taxa' = r.taxa
    /\ UNCHANGED <<plan, status, cursor, log, exit_code>>

\* cursor.execute raised sqlite3.Error in operation op.
Fail(op) ==
    /\ pending' = <<>>
    /\ IF catches_sqlite_error(op)
       THEN /\ log' = Append(log, [op |-> op, msg |-> "Database query error"])
            /\ status' = "exited"
            /\ exit_code' = 1
            /\ last' = Call(op, <<>>, "", "exited", "none", "", NoDict)
       ELSE /\ last' = Call(op, <<>>, "", "raised", "none", "", NoDict)
            /\ UNCHANGED <<log, status, exit_code>>
    /\ UNCHANGED <<tables, plan, cursor>>

FindSpeciesFromAccession ==
    /\ status = "ready"
    /\ \E closest_accession \in Accessions, err \in BOOLEAN :
          IF err
          THEN Fail("find_species_from_accession")
          ELSE \E r \in {find_species_from_accession(pending, closest_accession)} :
                  Return("find_species_from_accession", closest_accession, "", r)

GetSpeciesFromGenomesAccessionFromDb ==
    /\ status = "ready"
    /\ \E genome_accession \in Accessions, err \in BOOLEAN :
          IF err
          THEN Fail("get_species_from_genomes_accession_from_db")
          ELSE \E r \in {get_species_from_genomes_accession_from_db(
                                pending, genome_accession)} :
                  Return("get_species_from_genomes_accession_from_db",
                         genome_accession, "", r)

GetAllGenomesForASpeciesFromDb ==
    /\ status = "ready"
    /\ \E species \in Names, err \in BOOLEAN :
          IF err
          THEN Fail("get_all_genomes_for_a_species_from_db")
          ELSE \E r \in {get_all_genomes_for_a_species_from_db(pending, species)} :
                  Return("get_all_genomes_for_a_species_from_db", <<>>, species, r)

Next ==
    \/ Construct
    \/ FindSpeciesFromAccession
    \/ GetSpeciesFromGenomesAccessionFromDb
    \/ GetAllGenomesForASpeciesFromDb

Spec == Init /\ [][Next]_vars

----------------------------------------------------------------------------
(* What the relations say, read row by row *)

FIND == "find_species_from_accession"
GET_SPECIES == "get_species_from_genomes_accession_from_db"
GET_ALL == "get_all_genomes_for_a_species_from_db"

ReturnedFrom(op) == last.op = op /\ last.outcome = "returned"

\* Annotation row k links a genome of accession a to a taxon n of rank r.
Links(k, a, n, r) ==
    \E g \in 1..Len(genomes), t \in 1..Len(taxa) :
        /\ genomes[g].id = genome_annotations[k].genome_id
        /\ taxa[t].id = genome_annotations[k].taxon_id
        /\ genomes[g].refseq_acc = a
        /\ taxa[t].name = n
        /\ taxa[t].rank = r

AnnotatedNames(a) ==
    {n \in Names : \E k \in 1..Len(genome_annotations), r \in Ranks : Links(k, a, n, r)}

SpeciesNames(a) ==
    {n \in Names : \E k \in 1..Len(genome_annotations) : Links(k, a, n, "species")}

SpeciesRows(a, s) ==
    {k \in 1..Len(genome_annotations) : Links(k, a, s, "species")}

SpeciesAccessions(s) == {a \in Accessions : SpeciesRows(a, s) # {}}

Elements(seq) == {seq[i] : i \in 1..Len(seq)}

Occurrences(seq, x) == Cardinality({i \in 1..Len(seq) : seq[i] = x})

----------------------------------------------------------------------------
(* Claims *)

\* C2: find_species_from_accession(a) returns "Unknown" when no annotation
\* joins a genome of accession a to a taxon, and otherwise the name of a
\* taxon annotated to such a genome, of whatever rank.
C2_FindSpeciesAnyRank ==
    ReturnedFrom(FIND) =>
        /\ last.kind = "str"
        /\ IF AnnotatedNames(last.acc) = {}
           THEN last.str = "Unknown"
           ELSE last.str \in AnnotatedNames(last.acc)

\* The broad lookup returned the name of a genus for a genome that has no
\* species-rank annotation.
C2_Witness ==
    /\ ReturnedFrom(FIND)
    /\ SpeciesNames(last.acc) = {}
    /\ AnnotatedNames(last.acc) # {}
    /\ last.str \in AnnotatedNames(last.acc)

\* C3: get_species_from_genomes_accession_from_db(a) returns the name of a
\* species-rank taxon annotated to a genome of accession a when there is one,
\* and None otherwise; never the name of a taxon of another rank.
C3_GetSpeciesSpeciesRankOnly ==
    ReturnedFrom(GET_SPECIES) =>
        IF SpeciesNames(last.acc) = {}
        THEN last.kind = "None"
        ELSE last.kind = "str" /\ last.str \in SpeciesNames(last.acc)

\* The species-rank lookup returned None for a genome annotated at genus rank
\* only.
C3_Witness ==
    /\ ReturnedFrom(GET_SPECIES)
    /\ SpeciesNames(last.acc) = {}
    /\ AnnotatedNames(last.acc) # {}
    /\ last.kind = "None"

\* What operation op returns for its input on a cursor with nothing left on it.
OnFreshCursor(op, acc, name) ==
    CASE op = FIND -> find_species_from_accession(<<>>, acc)
      [] op = GET_SPECIES -> get_species_from_genomes_accession_from_db(<<>>, acc)
      [] op = GET_ALL -> get_all_genomes_for_a_species_from_db(<<>>, name)

\* C4: the value an operation returns is the value it returns for that input
\* on a fresh cursor over the same relations, whatever ran before on the
\* shared cursor and whatever rows an earlier fetchone left behind.
C4_ResultIndependentOfHistory ==
    (last.outcome = "returned" /\ last.op \in {FIND, GET_SPECIES, GET_ALL}) =>
        LET fresh == OnFreshCursor(last.op, last.acc, last.name)
        IN  /\ last.kind = fresh.kind
            /\ last.str = fresh.str
            /\ last.dict = fresh.dict

\* A lookup returned a name although the call began with unfetched rows of an
\* earlier statement on the cursor.
C4_Witness ==
    /\ ReturnedFrom(GET_SPECIES)
    /\ last.left > 0
    /\ last.kind = "str"

\* C5 (as claimed): a database failure in any of the three read operations
\* emits a log line naming the operation and ends the process with a non-zero
\* status; nothing reaches the caller.
C5_EveryFailureLogsAndExits ==
    (last.op \in {FIND, GET_SPECIES, GET_ALL} /\ last.outcome # "returned") =>
        /\ status = "exited"
        /\ exit_code # 0
        /\ log # <<>>
        /\ log[Len(log)].op = last.op

\* C7: no step changes genomes, genome_annotations or taxa.
C7_RelationsUnchanged == [][tables' = tables]_vars

\* A lookup has run and returned accessions read from the relations.
C7_Witness ==
    /\ ReturnedFrom(GET_ALL)
    /\ DOMAIN last.dict # {}
    /\ last.left = 0

\* C8: construction either hands out an instance with a cursor or logs and
\* exits with a non-zero status, and the cursor of an instance never changes.
C8_FailFastAndCursorFixed ==
    [][/\ (status = "new" /\ status' = "ready") => cursor' # 0
       /\ (status = "new" /\ status' # "ready") =>
             (status' = "exited" /\ exit_code' # 0 /\ Len(log') > Len(log))
       /\ status = "ready" => cursor' = cursor]_vars

\* An instance whose cursor is the one made at construction has answered a
\* broad lookup with the sentinel.
C8_Witness ==
    /\ status = "ready"
    /\ cursor = 1
    /\ ReturnedFrom(FIND)
    /\ last.str = "Unknown"
    /\ AnnotatedNames(last.acc) = {}

\* C1 (as claimed): get_all_genomes_for_a_species_from_db(s) returns the empty
\* mapping when no genome is annotated to a species named s, and otherwise a
\* mapping of the one key s to a sequence holding the accession of every such
\* genome and nothing else.
C1_AllGenomesOfSpecies ==
    ReturnedFrom(GET_ALL) =>
        IF SpeciesAccessions(last.name) = {}
        THEN DOMAIN last.dict = {}
        ELSE /\ DOMAIN last.dict = {last.name}
             /\ Elements(last.dict[last.name]) = SpeciesAccessions(last.name)

\* The annotation rows that link some genome to a species named s.
AllSpeciesRows(s) == UNION {SpeciesRows(a, s) : a \in Accessions}

\* C6 (as claimed): for a species one of whose genomes has an accession
\* containing a comma, the returned sequence has one element per annotation,
\* each the full refseq_acc of an annotated genome, under the unchanged key.
C6_CommaRoundTrip ==
    (/\ ReturnedFrom(GET_ALL)
     /\ \E a \in SpeciesAccessions(last.name) : HasComma(a)) =>
        /\ DOMAIN last.dict = {last.name}
        /\ Len(last.dict[last.name]) = Cardinality(AllSpeciesRows(last.name))
        /\ Elements(last.dict[last.name]) \subseteq SpeciesAccessions(last.name)

\* The species of the last call has comma-free accessions only, each genome
\* annotated to it once, and at least two of them.
PlainSpecies ==
    /\ ReturnedFrom(GET_ALL)
    /\ \A a \in SpeciesAccessions(last.name) :
          ~HasComma(a) /\ Cardinality(SpeciesRows(a, last.name)) = 1
    /\ Cardinality(SpeciesAccessions(last.name)) >= 2

\* The rowid of the genome of accession a.
GenomeId(a) == CHOOSE g \in 1..Len(genomes) : genomes[g].refseq_acc = a

InInsertionOrder(seq) ==
    \A i, j \in 1..Len(seq) : i < j => GenomeId(seq[i]) < GenomeId(seq[j])

\* C9 (as claimed): the accessions of a species come in the order in which
\* their genomes were inserted.
C9_GenomeInsertionOrder ==
    PlainSpecies =>
        /\ DOMAIN last.dict = {last.name}
        /\ Elements(last.dict[last.name]) = SpeciesAccessions(last.name)
        /\ InInsertionOrder(last.dict[last.name])

\* C9 (amended): for a species whose accessions hold no comma, the returned
\* sequence holds the accession of each annotated genome once per annotation
\* and nothing else, in the order the engine aggregated them.
C9_AggregationOrder ==
    (/\ ReturnedFrom(GET_ALL)
     /\ SpeciesAccessions(last.name) # {}
     /\ \A a \in SpeciesAccessions(last.name) : ~HasComma(a)) =>
        /\ DOMAIN last.dict = {last.name}
        /\ \A a \in Accessions :
              Occurrences(last.dict[last.name], a)
                  = Cardinality(SpeciesRows(a, last.name))
        /\ Len(last.dict[last.name]) = Cardinality(AllSpeciesRows(last.name))

\* Two genomes of one species were returned later-inserted first.
C9_Witness ==
    /\ PlainSpecies
    /\ ~InInsertionOrder(last.dict[last.name])

\* C10 (as claimed): when the species-rank lookup returns s for accession a,
\* the mapping for s has key s and a in its sequence; and every element of a
\* returned sequence is the accession of a genome annotated to that species.
C10_SpeciesLookupsAgree ==
    /\ (ReturnedFrom(GET_SPECIES) /\ last.kind = "str") =>
          LET d == get_all_genomes_for_a_species_from_db(pending, last.str).dict
          IN  /\ last.str \in DOMAIN d
              /\ last.acc \in Elements(d[last.str])
    /\ ReturnedFrom(GET_ALL) =>
          \A n \in DOMAIN last.dict :
              Elements(last.dict[n]) \subseteq SpeciesAccessions(n)

====
